---- MODULE Spec2Model ----
(***************************************************************************)
(* Model of the /api/clip request handler of backend/src/index.ts: the     *)
(* yt-dlp download stage, the ffmpeg remux stage, the responses and the    *)
(* cleanup of the finally block, for concurrent requests that share one    *)
(* uploads directory.                                                      *)
(*                                                                         *)
(* A file name is a sequence of text pieces; the decimal timestamp is one  *)
(* piece per digit, so that String.startsWith on names is the prefix test  *)
(* on sequences.  All paths are joined to uploadsDir, so a path is         *)
(* modelled by the name of its entry in the uploads directory.             *)
(* The text that the handlers append to an error message after "Stderr: "  *)
(* is diagnostic output of the child process and is not represented.       *)
(***************************************************************************)
EXTENDS Integers, Sequences, FiniteSets, TLC

\* ------------------------------------------------------------------ bounds
\* stdout chunks a download process delivers before it closes
MaxChunks == 1

\* ------------------------------------------------------- modelled universe
\* the requests, named in their order of arrival
Requests == {"a", "b"}
First == "a"
\* values Date.now() returns: that of the first arrival, and a later one of
\* which the first is a prefix
Timestamps == {1, 10}
\* a request field: missing, empty, or present
Undefined == "undefined"
FieldValues == {Undefined, "", "v"}
\* extensions yt-dlp substitutes for %(ext)s
MergedExt == <<".mp4">>
Exts == {MergedExt, <<".f137", ".mp4">>}
\* a path that is not in the uploads directory
OutsidePath == <<"/tmp/", "other.mp4">>
\* message of the OS error of a failed spawn
OsErrors == {"spawn ENOENT"}
Null == <<>>
\* exit codes of a process that ran; a failed spawn closes with the negated errno
ExitCodes == {0, 1}
SpawnFailedCode == 0 - 2
\* a process that has not closed has no exit code
NoCode == 0 - 1

\* ------------------------------------------------------------ pure helpers
DigitChars == <<"0", "1", "2", "3", "4", "5", "6", "7", "8", "9">>

RECURSIVE ToDigits(_)
\* the decimal text of a number, as the template literal `${timestamp}` renders it
ToDigits(n) == IF n < 10 THEN <<DigitChars[n + 1]>>
               ELSE ToDigits(n \div 10) \o <<DigitChars[(n % 10) + 1]>>

\* String.prototype.startsWith
StartsWith(s, p) == Len(p) <= Len(s) /\ SubSeq(s, 1, Len(p)) = p

\* path.basename(tempMuxedPathBase) : `temp-muxed-${timestamp}`
TempMuxedBase(ts) == <<"temp-muxed-">> \o ToDigits(ts)
\* a file yt-dlp writes for the template outputPathBase + '.%(ext)s'
TempName(ts, ext) == TempMuxedBase(ts) \o ext
\* `clip-${timestamp}.mp4`
FinalOutputPath(ts) == <<"clip-">> \o ToDigits(ts) \o <<".mp4">>
\* finalOutputPath + '.part'
PartFilePath(ts) == FinalOutputPath(ts) \o <<".part">>

\* JavaScript truthiness of a request field
Truthy(v) == v # Undefined /\ v # ""

\* a validation that tests the url alone
InvalidUrlOnly(b) == ~Truthy(b.url)

\* the validation of the request body: !url || !startTime || !endTime
Invalid(b) == ~Truthy(b.url) \/ ~Truthy(b.startTime) \/ ~Truthy(b.endTime)

Bodies == [url : FieldValues, startTime : FieldValues, endTime : FieldValues]

\* ------------------------------------------------------- the file system
NoFiles == [n \in {} |-> 0]
\* fs.existsSync
ExistsSync(dir, p) == p \in DOMAIN dir
\* a process creates or overwrites the file p
WriteFile(dir, p, size) == (p :> [size |-> size]) @@ dir
RemoveFile(dir, p) == [n \in DOMAIN dir \ {p} |-> dir[n]]
RECURSIVE SetToSeq(_)
SetToSeq(S) == IF S = {} THEN <<>>
               ELSE LET x == CHOOSE y \in S : TRUE IN <<x>> \o SetToSeq(S \ {x})
\* fs.readdirSync: the entries of the directory, in an order the OS chooses
Listings(dir) ==
    IF DOMAIN dir = {} THEN {<<>>}
    ELSE {<<f>> \o SetToSeq(DOMAIN dir \ {f}) : f \in DOMAIN dir}

RECURSIVE FindLast(_, _)
\* a search that returns the last element satisfying the test
FindLast(l, base) ==
    IF l = <<>> THEN Null
    ELSE IF FindLast(Tail(l), base) # Null THEN FindLast(Tail(l), base)
    ELSE IF StartsWith(Head(l), base) THEN Head(l)
    ELSE Null

\* a search that takes the first entry of the listing without testing its name
FindHead(l, base) == IF l = <<>> THEN Null ELSE Head(l)

\* Array.prototype.find: the first element satisfying the test, else Null
RECURSIVE FindFirst(_, _)
FindFirst(l, base) ==
    IF l = <<>> THEN Null
    ELSE IF StartsWith(Head(l), base) THEN Head(l)
    ELSE FindFirst(Tail(l), base)

\* ---------------------------------------------------------------- messages
\* the text `${code}` of an exit code
CodeText(c) == IF c < 0 THEN <<"-">> \o ToDigits(0 - c) ELSE ToDigits(c)

YtDlpStartError(m) == <<"Failed to start yt-dlp (muxed): ", m>>
YtDlpNoFileError == <<"yt-dlp (muxed) indicated success, but no output file was found.">>
YtDlpCodeError(c) == <<"yt-dlp download (muxed) failed with code ">> \o CodeText(c) \o <<".">>
MissingPathError == <<"Missing temporary muxed path after download.">>
\* an error that names the failure without the message of the OS error
FfmpegStartErrorOpaque(m) == <<"Failed to start ffmpeg">>
FfmpegStartError(m) == <<"Failed to start ffmpeg: ", m>>
FfmpegEmptyError == <<"FFmpeg remux failed: Output file missing or empty.">>
FfmpegCodeError(c) == <<"FFmpeg remux failed with code ">> \o CodeText(c) \o <<".">>

\* res.status(400).json({error: 'URL is required'})
BadRequestResponse == [status |-> 400, body |-> [error |-> "URL is required"]]
\* res.json({success: true, filePath: finalOutputPath, message: ...})
SuccessResponse(path) ==
    [status |-> 200,
     body |-> [success |-> TRUE, filePath |-> path,
               message |-> "Video section processed successfully"]]
\* the catch block: res.status(500).json({error: ..., details: error.message})
ErrorResponse(m) ==
    [status |-> 500,
     body |-> [error |-> "Failed to process video section", details |-> m]]

\* --------------------------------------------------------- stdout parsing
DownloadTag == "[download] Destination: "
DownlaodTag == "[downlaod] Destination: "
\* a chunk of stdout: what precedes a path, and the path
Chunks(ts) ==
    {DownloadTag, DownlaodTag} \X {TempName(ts, MergedExt), OutsidePath}
\* output.match(/\[downlaod\] Destination: (.+)/): the captured path, or Null
DestinationMatch(chunk) == IF chunk[1] = DownlaodTag THEN chunk[2] ELSE Null
\* the stdout 'data' handler's update of detectedPath
Detect(old, chunk, ts) ==
    LET filePath == DestinationMatch(chunk)
    IN  IF filePath # Null /\ StartsWith(filePath, TempMuxedBase(ts))
        THEN filePath ELSE old

VARIABLES
    now,             \* the clock Date.now() reads
    fs,              \* the uploads directory: name -> [size]
    pc,              \* where each request's handler is
    timestamp,       \* Date.now() of the request (0: not taken yet)
    body,            \* req.body
    ytDlp,           \* state of the spawned yt-dlp process
    ffmpeg,          \* state of the spawned ffmpeg process
    processStdout,   \* chunks received on yt-dlp's stdout
    detectedPath,    \* runYtDlpDownload's detectedPath
    download,        \* the promise runYtDlpDownload returns
    remux,           \* the promise awaited for ffmpeg
    tempMuxedPath,   \* the handler's tempMuxedPath
    responses,       \* responses sent on res, in order
    CleanupPromises, \* the unlinks Cleanup started: path -> outcome
    spawned,         \* how many times each binary was spawned: [yt, ff]
    exitCode         \* the code each process closed with: [yt, ff]

vars == <<now, fs, pc, timestamp, body, ytDlp, ffmpeg, processStdout, detectedPath,
          download, remux, tempMuxedPath, responses, CleanupPromises,
          spawned, exitCode>>

Pending == [state |-> "pending"]
Resolved(v) == [state |-> "resolved", value |-> v]
Rejected(m) == [state |-> "rejected", reason |-> m]

\* a promise settles once: resolve and reject of a settled promise do nothing
Settle(p, outcome) == IF p.state = "pending" THEN outcome ELSE p

Init ==
    /\ now = 1
    /\ fs = NoFiles
    /\ pc = [r \in Requests |-> "idle"]
    /\ timestamp = [r \in Requests |-> 0]
    /\ body = [r \in Requests |-> [url |-> Undefined, startTime |-> Undefined,
                                   endTime |-> Undefined]]
    /\ ytDlp = [r \in Requests |-> "none"]
    /\ ffmpeg = [r \in Requests |-> "none"]
    /\ processStdout = [r \in Requests |-> <<>>]
    /\ detectedPath = [r \in Requests |-> Null]
    /\ download = [r \in Requests |-> Pending]
    /\ remux = [r \in Requests |-> Pending]
    /\ tempMuxedPath = [r \in Requests |-> Null]
    /\ responses = [r \in Requests |-> <<>>]
    /\ CleanupPromises = [r \in Requests |-> NoFiles]
    /\ spawned = [r \in Requests |-> [yt |-> 0, ff |-> 0]]
    /\ exitCode = [r \in Requests |-> [yt |-> NoCode, ff |-> NoCode]]


\* ---------------------------------------------------------------- cleanup
\* a finally block that looks for the .part file only when there is no
\* intermediate file to remove
CleanupTargetsElse(dir, tmp, finalOutputPath) ==
    IF tmp # Null /\ ExistsSync(dir, tmp) THEN {tmp}
    ELSE IF ExistsSync(dir, finalOutputPath \o <<".part">>)
         THEN {finalOutputPath \o <<".part">>} ELSE {}

\* a finally block that removes the output file as well
CleanupTargetsWithFinal(dir, tmp, finalOutputPath) ==
    (IF tmp # Null /\ ExistsSync(dir, tmp) THEN {tmp} ELSE {})
    \cup (IF ExistsSync(dir, finalOutputPath \o <<".part">>)
          THEN {finalOutputPath \o <<".part">>} ELSE {})
    \cup (IF ExistsSync(dir, finalOutputPath) THEN {finalOutputPath} ELSE {})

\* the paths the finally block starts an unlink for
CleanupTargets(dir, tmp, finalOutputPath) ==
    (IF tmp # Null /\ ExistsSync(dir, tmp) THEN {tmp} ELSE {})
    \cup (IF ExistsSync(dir, finalOutputPath \o <<".part">>)
          THEN {finalOutputPath \o <<".part">>} ELSE {})

\* fs.unlink of p: the directory afterwards, and whether the call failed;
\* it fails when the OS refuses (ok = FALSE) or the file is gone
Unlink(dir, p, ok) ==
    IF ok /\ ExistsSync(dir, p)
    THEN [dir |-> RemoveFile(dir, p), failed |-> FALSE]
    ELSE [dir |-> dir, failed |-> TRUE]

\* unlinkAsync(p) without the .catch: a failure rejects the promise
UnlinkUncaught(dir, p, ok) ==
    LET u == Unlink(dir, p, ok)
    IN  [dir |-> u.dir, outcome |-> IF u.failed THEN "failed" ELSE "deleted",
         rejected |-> u.failed]

\* unlinkAsync(p).catch(...): a failure is logged and the promise is
\* fulfilled all the same
UnlinkCaught(dir, p, ok) ==
    LET u == Unlink(dir, p, ok)
    IN  [dir |-> u.dir, outcome |-> IF u.failed THEN "failed" ELSE "deleted",
         rejected |-> FALSE]

RECURSIVE UnlinkAll(_, _, _)
\* the unlinks of the paths ps, each with the outcome ok[p] the OS gives it:
\* the directory afterwards, and whether a promise of CleanupPromises rejected
UnlinkAll(dir, ps, ok) ==
    IF ps = {} THEN [dir |-> dir, raised |-> FALSE]
    ELSE LET p == CHOOSE q \in ps : TRUE
             u == UnlinkCaught(dir, p, ok[p])
             rest == UnlinkAll(u.dir, ps \ {p}, ok)
         IN  [dir |-> rest.dir, raised |-> u.rejected \/ rest.raised]

\* one whole run of the finally block on the directory dir
CleanupRun(dir, tmp, finalOutputPath, ok) ==
    UnlinkAll(dir, CleanupTargets(dir, tmp, finalOutputPath), ok)

\* a Promise.race in place of Promise.all: fulfilled once one element is
AnyFulfilled(ps) == \E p \in DOMAIN ps : ps[p] \in {"deleted", "failed"}

\* Promise.all(CleanupPromises) is fulfilled once every element is
AllFulfilled(ps) == \A p \in DOMAIN ps : ps[p] \in {"deleted", "failed"}

\* the finally block, to its await of Promise.all; with nothing to unlink the
\* await resumes in the same turn and the handler is finished
Finally(r, ts, tmp) ==
    LET targets == CleanupTargets(fs, tmp, FinalOutputPath(ts))
    IN  /\ CleanupPromises' = [CleanupPromises EXCEPT
                                  ![r] = [p \in targets |-> "pending"]]
        /\ pc' = [pc EXCEPT ![r] = IF targets = {} THEN "done"
                                   ELSE "awaitCleanup"]



\* a catch block that logs the error and sends nothing
CatchSilent(sent, m) == sent

\* the catch block's res.status(500).json(...), given the responses sent so far
Catch(sent, m) == Append(sent, ErrorResponse(m))

\* the catch block, followed by the finally block
CatchBlock(r, m, tmp) ==
    /\ responses' = [responses EXCEPT ![r] = Catch(@, m)]
    /\ Finally(r, timestamp[r], tmp)

\* ------------------------------------------------------------ the handler
\* child_process.spawn: the process starts, or the launch fails and 'error'
\* is emitted on a later tick
\* a spawn whose process may also hang, emitting neither 'close' nor 'error'
SpawnOutcomesHung == {"running", "failed", "hung"}
SpawnOutcomes == {"running", "failed"}

\* app.post('/api/clip'): from the request's arrival to the first await
Receive(r) ==
    /\ pc[r] = "idle"
    /\ r = First \/ pc[First] # "idle"
    /\ \E ts \in {now}, b \in Bodies :
        /\ timestamp' = [timestamp EXCEPT ![r] = ts]
        /\ body' = [body EXCEPT ![r] = b]
        /\ IF Invalid(b)
           THEN /\ responses' = [responses EXCEPT ![r] = Append(@, BadRequestResponse)]
                /\ Finally(r, ts, tempMuxedPath[r])
                /\ UNCHANGED <<ytDlp, spawned>>
           ELSE /\ \E o \in SpawnOutcomes : ytDlp' = [ytDlp EXCEPT ![r] = o]
                /\ spawned' = [spawned EXCEPT ![r].yt = @ + 1]
                /\ pc' = [pc EXCEPT ![r] = "awaitYtDlp"]
                /\ UNCHANGED <<responses, CleanupPromises>>
    /\ UNCHANGED <<exitCode, now, fs, ffmpeg, processStdout, detectedPath, download,
                   remux, tempMuxedPath>>

\* the yt-dlp process writes a file named by its output template
YtDlpWrite(r) ==
    /\ ytDlp[r] = "running"
    /\ \E e \in Exts : fs' = WriteFile(fs, TempName(timestamp[r], e), 1)
    /\ UNCHANGED <<exitCode, now, pc, timestamp, body, ytDlp, ffmpeg, processStdout,
                   detectedPath, download, remux, tempMuxedPath,
                   responses, CleanupPromises, spawned>>

\* the yt-dlp process removes a file it wrote (a fragment, once merged)
YtDlpRemove(r) ==
    /\ ytDlp[r] = "running"
    /\ \E e \in Exts :
        /\ ExistsSync(fs, TempName(timestamp[r], e))
        /\ fs' = RemoveFile(fs, TempName(timestamp[r], e))
    /\ UNCHANGED <<exitCode, now, pc, timestamp, body, ytDlp, ffmpeg, processStdout,
                   detectedPath, download, remux, tempMuxedPath,
                   responses, CleanupPromises, spawned>>

\* ytDlp.stdout.on('data')
YtDlpStdout(r) ==
    /\ ytDlp[r] = "running"
    /\ Len(processStdout[r]) < MaxChunks
    /\ \E chunk \in Chunks(timestamp[r]) :
        /\ processStdout' = [processStdout EXCEPT ![r] = Append(@, chunk)]
        /\ detectedPath' = [detectedPath EXCEPT
                               ![r] = Detect(@, chunk, timestamp[r])]
    /\ UNCHANGED <<exitCode, now, fs, pc, timestamp, body, ytDlp, ffmpeg, download,
                   remux, tempMuxedPath, responses, CleanupPromises, spawned>>

\* a continuation that swallows the download error and goes on to ffmpeg
AfterDownloadSwallowed(r, d) ==
    /\ tempMuxedPath' = [tempMuxedPath EXCEPT
                            ![r] = IF d.state = "resolved" THEN d.value ELSE Null]
    /\ \E o \in SpawnOutcomes : ffmpeg' = [ffmpeg EXCEPT ![r] = o]
    /\ spawned' = [spawned EXCEPT ![r].ff = @ + 1]
    /\ pc' = [pc EXCEPT ![r] = "awaitFfmpeg"]
    /\ UNCHANGED <<responses, CleanupPromises>>

\* a continuation that spawns ffmpeg a second time when the launch fails
AfterDownloadRetry(r, d) ==
    IF d.state = "rejected"
    THEN /\ CatchBlock(r, d.reason, tempMuxedPath[r])
         /\ UNCHANGED <<tempMuxedPath, ffmpeg, spawned>>
    ELSE /\ tempMuxedPath' = [tempMuxedPath EXCEPT ![r] = d.value]
         /\ IF d.value = Null
            THEN /\ CatchBlock(r, MissingPathError, d.value)
                 /\ UNCHANGED <<ffmpeg, spawned>>
            ELSE /\ \E o \in SpawnOutcomes :
                      \/ /\ o = "running"
                         /\ ffmpeg' = [ffmpeg EXCEPT ![r] = o]
                         /\ spawned' = [spawned EXCEPT ![r].ff = @ + 1]
                      \/ /\ o = "failed"
                         /\ \E o2 \in SpawnOutcomes :
                               ffmpeg' = [ffmpeg EXCEPT ![r] = o2]
                         /\ spawned' = [spawned EXCEPT ![r].ff = @ + 2]
                 /\ pc' = [pc EXCEPT ![r] = "awaitFfmpeg"]
                 /\ UNCHANGED <<responses, CleanupPromises>>

\* the continuation of `await runYtDlpDownload(...)` once the promise is
\* settled as d: the catch block on a rejection, else the assignment of
\* tempMuxedPath and the spawn of ffmpeg
AfterDownload(r, d) ==
    IF d.state = "rejected"
    THEN /\ CatchBlock(r, d.reason, tempMuxedPath[r])
         /\ UNCHANGED <<tempMuxedPath, ffmpeg, spawned>>
    ELSE /\ tempMuxedPath' = [tempMuxedPath EXCEPT ![r] = d.value]
         /\ IF d.value = Null
            THEN /\ CatchBlock(r, MissingPathError, d.value)
                 /\ UNCHANGED <<ffmpeg, spawned>>
            ELSE /\ \E o \in SpawnOutcomes : ffmpeg' = [ffmpeg EXCEPT ![r] = o]
                 /\ spawned' = [spawned EXCEPT ![r].ff = @ + 1]
                 /\ pc' = [pc EXCEPT ![r] = "awaitFfmpeg"]
                 /\ UNCHANGED <<responses, CleanupPromises>>

\* resolve or reject of runYtDlpDownload's promise: the first settles it and
\* resumes the handler, a later one does nothing
SettleDownload(r, outcome) ==
    /\ download' = [download EXCEPT ![r] = Settle(@, outcome)]
    /\ IF download[r].state = "pending" /\ pc[r] = "awaitYtDlp"
       THEN AfterDownload(r, outcome)
       ELSE UNCHANGED <<pc, tempMuxedPath, ffmpeg, spawned, responses,
                        CleanupPromises>>

\* ytDlp.on('error')
YtDlpError(r) ==
    /\ ytDlp[r] = "failed"
    /\ \E m \in OsErrors : SettleDownload(r, Rejected(YtDlpStartError(m)))
    /\ ytDlp' = [ytDlp EXCEPT ![r] = "errored"]
    /\ UNCHANGED <<processStdout, detectedPath>>
    /\ UNCHANGED <<exitCode, now, fs, timestamp, body, remux>>

\* a close handler that takes exit code 0 at its word: with no file found it
\* resolves to the merged file the template names
ResolveDownloadTrusting(dir, detected, ts, listed, listing) ==
    IF detected # Null /\ ExistsSync(dir, detected)
    THEN Resolved(detected)
    ELSE LET foundFile == IF listed THEN FindFirst(listing, TempMuxedBase(ts))
                          ELSE Null
         IN  IF foundFile # Null THEN Resolved(foundFile)
             ELSE Resolved(TempName(ts, MergedExt))

\* a close handler that resolves to the detected path without testing that
\* the file exists
ResolveDownloadUnverified(dir, detected, ts, listed, listing) ==
    IF detected # Null
    THEN Resolved(detected)
    ELSE LET foundFile == IF listed THEN FindFirst(listing, TempMuxedBase(ts))
                          ELSE Null
         IN  IF foundFile # Null /\ ExistsSync(dir, foundFile)
             THEN Resolved(foundFile)
             ELSE Rejected(YtDlpNoFileError)

\* the outcome of ytDlp.on('close') for exit code 0, given what readdirSync
\* returned (listing) or that it threw (listed = FALSE)
ResolveDownload(dir, detected, ts, listed, listing) ==
    IF detected # Null /\ ExistsSync(dir, detected)
    THEN Resolved(detected)
    ELSE LET foundFile == IF listed THEN FindFirst(listing, TempMuxedBase(ts))
                          ELSE Null
         IN  IF foundFile # Null /\ ExistsSync(dir, foundFile)
             THEN Resolved(foundFile)
             ELSE Rejected(YtDlpNoFileError)

\* ytDlp.on('close')
YtDlpClose(r) ==
    /\ ytDlp[r] \in {"running", "errored"}
    /\ \E code \in ExitCodes \cup {SpawnFailedCode} :
        /\ (code = SpawnFailedCode) <=> (ytDlp[r] = "errored")
        /\ IF code = 0
           THEN IF detectedPath[r] # Null /\ ExistsSync(fs, detectedPath[r])
                THEN SettleDownload(r, ResolveDownload(fs, detectedPath[r],
                                           timestamp[r], FALSE, <<>>))
                ELSE \E listed \in BOOLEAN :
                     \E listing \in IF listed THEN Listings(fs) ELSE {<<>>} :
                        SettleDownload(r, ResolveDownload(fs, detectedPath[r],
                                           timestamp[r], listed, listing))
           ELSE SettleDownload(r, Rejected(YtDlpCodeError(code)))
        /\ exitCode' = [exitCode EXCEPT ![r].yt = code]
    /\ ytDlp' = [ytDlp EXCEPT ![r] = "closed"]
    \* the process is gone and its promise settled: the closure's variables
    \* are out of reach
    /\ processStdout' = [processStdout EXCEPT ![r] = <<>>]
    /\ detectedPath' = [detectedPath EXCEPT ![r] = Null]
    /\ UNCHANGED <<now, fs, timestamp, body, remux>>

\* the ffmpeg process writes (or, with -y, overwrites) its output file
FfmpegWrite(r) ==
    /\ ffmpeg[r] = "running"
    /\ \E size \in {0, 1} :
        fs' = WriteFile(fs, FinalOutputPath(timestamp[r]), size)
    /\ UNCHANGED <<exitCode, now, pc, timestamp, body, ytDlp, ffmpeg, processStdout,
                   detectedPath, download, remux, tempMuxedPath,
                   responses, CleanupPromises, spawned>>

\* the ffmpeg process leaves a partial-output file beside its output
FfmpegWritePart(r) ==
    /\ ffmpeg[r] = "running"
    /\ fs' = WriteFile(fs, PartFilePath(timestamp[r]), 1)
    /\ UNCHANGED <<exitCode, now, pc, timestamp, body, ytDlp, ffmpeg, processStdout,
                   detectedPath, download, remux, tempMuxedPath,
                   responses, CleanupPromises, spawned>>

\* a continuation that reports success whatever the promise settled as
AfterRemuxAlways(r, d) ==
    /\ responses' = [responses EXCEPT ![r] =
           Append(@, SuccessResponse(FinalOutputPath(timestamp[r])))]
    /\ Finally(r, timestamp[r], tempMuxedPath[r])

\* the continuation of the await on ffmpeg once its promise is settled as d:
\* res.json and the finally block, or the catch block
AfterRemux(r, d) ==
    IF d.state = "rejected"
    THEN CatchBlock(r, d.reason, tempMuxedPath[r])
    ELSE /\ responses' = [responses EXCEPT ![r] =
                Append(@, SuccessResponse(FinalOutputPath(timestamp[r])))]
         /\ Finally(r, timestamp[r], tempMuxedPath[r])

\* a promise whose every resolve and reject resumes the handler
SettleRemuxEvery(r, outcome) ==
    /\ remux' = [remux EXCEPT ![r] = Settle(@, outcome)]
    /\ AfterRemux(r, outcome)

\* resolve or reject of the promise awaited for ffmpeg
SettleRemux(r, outcome) ==
    /\ remux' = [remux EXCEPT ![r] = Settle(@, outcome)]
    /\ IF remux[r].state = "pending" /\ pc[r] = "awaitFfmpeg"
       THEN AfterRemux(r, outcome)
       ELSE UNCHANGED <<pc, responses, CleanupPromises>>

\* ffmpeg.on('error')
FfmpegError(r) ==
    /\ ffmpeg[r] = "failed"
    /\ \E m \in OsErrors : SettleRemux(r, Rejected(FfmpegStartError(m)))
    /\ ffmpeg' = [ffmpeg EXCEPT ![r] = "errored"]
    /\ UNCHANGED <<processStdout, detectedPath>>
    /\ UNCHANGED <<exitCode, now, fs, timestamp, body, ytDlp, download, tempMuxedPath,
                   spawned>>

\* a close handler without the check of the output file
ResolveRemuxUnchecked(dir, finalOutputPath, code) ==
    IF code = 0 THEN Resolved(Null) ELSE Rejected(FfmpegCodeError(code))

\* the outcome of ffmpeg.on('close')
ResolveRemux(dir, finalOutputPath, code) ==
    IF code = 0
    THEN IF ExistsSync(dir, finalOutputPath) /\ dir[finalOutputPath].size > 0
         THEN Resolved(Null)
         ELSE Rejected(FfmpegEmptyError)
    ELSE Rejected(FfmpegCodeError(code))

\* ffmpeg.on('close')
FfmpegClose(r) ==
    /\ ffmpeg[r] \in {"running", "errored"}
    /\ \E code \in ExitCodes \cup {SpawnFailedCode} :
        /\ (code = SpawnFailedCode) <=> (ffmpeg[r] = "errored")
        /\ SettleRemux(r, ResolveRemux(fs, FinalOutputPath(timestamp[r]), code))
        /\ exitCode' = [exitCode EXCEPT ![r].ff = code]
    /\ ffmpeg' = [ffmpeg EXCEPT ![r] = "closed"]
    /\ UNCHANGED <<processStdout, detectedPath>>
    /\ UNCHANGED <<now, fs, timestamp, body, ytDlp, download, tempMuxedPath,
                   spawned>>

\* one of the unlinks Cleanup started completes; the last one fulfils
\* Promise.all and the handler finishes
UnlinkSettle(r) ==
    /\ pc[r] = "awaitCleanup"
    /\ \E p \in DOMAIN CleanupPromises[r], ok \in BOOLEAN :
        /\ CleanupPromises[r][p] = "pending"
        /\ LET u == UnlinkCaught(fs, p, ok)
               ps == [CleanupPromises[r] EXCEPT
                         ![p] = IF u.rejected THEN "rejected" ELSE u.outcome]
           IN  /\ fs' = u.dir
               /\ CleanupPromises' = [CleanupPromises EXCEPT ![r] = ps]
               /\ pc' = [pc EXCEPT ![r] = IF AllFulfilled(ps) THEN "done"
                                          ELSE @]
    /\ UNCHANGED <<processStdout, detectedPath>>
    /\ UNCHANGED <<exitCode, now, timestamp, body, ytDlp, ffmpeg, download, remux,
                   tempMuxedPath, responses, spawned>>

\* time passes between the first arrival and a later one
Tick ==
    /\ pc[First] # "idle"
    /\ \E t \in Timestamps : t > now /\ now' = t
    /\ \E r \in Requests : pc[r] = "idle"
    /\ UNCHANGED <<exitCode, fs, pc, timestamp, body, ytDlp, ffmpeg, processStdout,
                   detectedPath, download, remux, tempMuxedPath,
                   responses, CleanupPromises, spawned>>

Next ==
    \/ Tick
    \/ \E r \in Requests :
        \/ Receive(r)
        \/ YtDlpWrite(r)
        \/ YtDlpRemove(r)
        \/ YtDlpStdout(r)
        \/ YtDlpError(r)
        \/ YtDlpClose(r)
        \/ FfmpegWrite(r)
        \/ FfmpegWritePart(r)
        \/ FfmpegError(r)
        \/ FfmpegClose(r)
        \/ UnlinkSettle(r)

Spec == Init /\ [][Next]_vars

\* a spawned process emits 'close' or 'error' in the end, and an unlink that
\* was started completes
ProcessEvent(r) ==
    \/ YtDlpError(r) \/ YtDlpClose(r)
    \/ FfmpegError(r) \/ FfmpegClose(r)
    \/ UnlinkSettle(r)
Fairness == \A r \in Requests : WF_vars(ProcessEvent(r))
FairSpec == Init /\ [][Next]_vars /\ Fairness

\* ------------------------------------------------------------------ claims
HasResponse(r) == responses[r] # <<>>
InCleanup(r) == pc[r] \in {"awaitCleanup", "done"}

\* C1 (as stated): whenever a response has been sent, Cleanup has finished.
C1_ResponseOnlyAfterCleanup ==
    \A r \in Requests : HasResponse(r) => pc[r] = "done"

\* C1 (amended): the response is sent before Cleanup: Cleanup has not started,
\* and the handler has not finished, unless the response has been sent.
C1_CleanupOnlyAfterResponse ==
    \A r \in Requests :
        (InCleanup(r) \/ DOMAIN CleanupPromises[r] # {}) => HasResponse(r)

\* C1 witness: an error response was sent and Cleanup then removed a file
C1_Witness ==
    \E r \in Requests :
        /\ pc[r] = "done"
        /\ HasResponse(r) /\ responses[r][1].status = 500
        /\ \E p \in DOMAIN CleanupPromises[r] : CleanupPromises[r][p] = "deleted"

\* the files named temp-muxed-<ts>.* and clip-<ts>.mp4.part that exist
Intermediates(ts) ==
    {n \in DOMAIN fs : \E e \in Exts : n = TempName(ts, e)}
    \cup ({PartFilePath(ts)} \cap DOMAIN fs)
\* every unlink Cleanup started for r removed its file
NoUnlinkFailed(r) ==
    \A p \in DOMAIN CleanupPromises[r] : CleanupPromises[r][p] = "deleted"
\* r is the only request that has arrived
Alone(r) == \A q \in Requests \ {r} : pc[q] = "idle"
Succeeded(r) == HasResponse(r) /\ responses[r][1].status = 200

\* C2 (as stated, for a request served alone and with no unlink failing): when
\* the handler has completed, no temp-muxed-<ts>.* and no clip-<ts>.mp4.part
\* remains.
C2_NoIntermediateRemains ==
    \A r \in Requests :
        (pc[r] = "done" /\ Alone(r) /\ NoUnlinkFailed(r))
            => Intermediates(timestamp[r]) = {}

\* C3 (as stated, for a request served alone and with no unlink failing): when
\* both stages succeeded and the handler has completed, the final file exists,
\* is not empty, and no temp-muxed-<ts>.* remains.
C3_SuccessLeavesOnlyFinal ==
    \A r \in Requests :
        (pc[r] = "done" /\ Succeeded(r) /\ Alone(r) /\ NoUnlinkFailed(r))
            => /\ ExistsSync(fs, FinalOutputPath(timestamp[r]))
               /\ fs[FinalOutputPath(timestamp[r])].size > 0
               /\ Intermediates(timestamp[r]) = {}

DownloadFailed(r) ==
    \/ ytDlp[r] \in {"failed", "errored"}
    \/ exitCode[r].yt \notin {NoCode, 0}

\* C4: ffmpeg is spawned only after yt-dlp closed with code 0 and a path was
\* resolved; when yt-dlp exits non-zero or fails to start, the request never
\* spawns ffmpeg, and a final file exists only if another request with the
\* same timestamp spawned ffmpeg.
C4_TranscodeOnlyAfterDownload ==
    \A r \in Requests :
        /\ spawned[r].ff > 0 =>
              /\ ytDlp[r] = "closed" /\ exitCode[r].yt = 0
              /\ download[r].state = "resolved"
              /\ tempMuxedPath[r] # Null
              /\ tempMuxedPath[r] = download[r].value
        /\ DownloadFailed(r) =>
              /\ spawned[r].ff = 0 /\ ffmpeg[r] = "none"
              /\ ExistsSync(fs, FinalOutputPath(timestamp[r])) =>
                    \E q \in Requests \ {r} :
                        timestamp[q] = timestamp[r] /\ spawned[q].ff > 0

\* C4 witness: yt-dlp exited with code 1 leaving a file, the request is over,
\* ffmpeg was never spawned and there is no final file
C4_Witness ==
    \E r \in Requests :
        /\ exitCode[r].yt = 1 /\ pc[r] = "done"
        /\ spawned[r].ff = 0
        /\ Intermediates(timestamp[r]) # {}
        /\ ~ExistsSync(fs, FinalOutputPath(timestamp[r]))

\* the turn in which a process that had started closes with code c
YtDlpClosesWith(r, c) ==
    ytDlp[r] = "running" /\ ytDlp'[r] = "closed" /\ exitCode'[r].yt = c
FfmpegClosesWith(r, c) ==
    ffmpeg[r] = "running" /\ ffmpeg'[r] = "closed" /\ exitCode'[r].ff = c
\* no entry of the uploads directory starts with the basename of outputBase
NoMatch(r) ==
    ~\E n \in DOMAIN fs : StartsWith(n, TempMuxedBase(timestamp[r]))
NoPromiseRejected(r) ==
    \A p \in DOMAIN CleanupPromises[r] : CleanupPromises[r][p] # "rejected"

\* C5: when yt-dlp closes with code 0 and no entry of the uploads directory
\* starts with the basename of its output base, the request is answered with
\* the error response, ffmpeg is not spawned, and Cleanup goes through without
\* a rejection (and is finished at once unless a .part file is there).
C5_SilentDownloadFailure ==
    [][\A r \in Requests :
          (YtDlpClosesWith(r, 0) /\ NoMatch(r)) =>
              /\ responses'[r] = <<ErrorResponse(YtDlpNoFileError)>>
              /\ spawned'[r].ff = 0 /\ ffmpeg'[r] = "none"
              /\ pc'[r] \in {"awaitCleanup", "done"}
              /\ NoPromiseRejected(r)'
              /\ ~ExistsSync(fs, PartFilePath(timestamp[r])) =>
                    (pc'[r] = "done" /\ DOMAIN CleanupPromises'[r] = {})
      ]_vars

\* C5 witness: yt-dlp closed with 0, nothing matches, the request has failed
\* and is over without having spawned ffmpeg
C5_Witness ==
    \E r \in Requests :
        /\ exitCode[r].yt = 0 /\ NoMatch(r)
        /\ download[r].state = "rejected" /\ download[r].reason = YtDlpNoFileError
        /\ pc[r] = "done" /\ spawned[r].ff = 0
        /\ responses[r] = <<ErrorResponse(YtDlpNoFileError)>>

FinalMissingOrEmpty(r) ==
    \/ ~ExistsSync(fs, FinalOutputPath(timestamp[r]))
    \/ fs[FinalOutputPath(timestamp[r])].size = 0

\* C6: when ffmpeg closes with code 0 and the final file is absent or empty,
\* the request is answered with an error response whose details differ from
\* those of every non-zero exit.
C6_EmptyOutputIsFailure ==
    [][\A r \in Requests :
          (FfmpegClosesWith(r, 0) /\ FinalMissingOrEmpty(r)) =>
              /\ Len(responses'[r]) = 1
              /\ responses'[r][1].status = 500
              /\ responses'[r][1].body.details = FfmpegEmptyError
              /\ \A c \in (ExitCodes \cup {SpawnFailedCode}) \ {0} :
                    responses'[r][1].body.details # FfmpegCodeError(c)
      ]_vars

\* C6 witness: ffmpeg closed with 0 leaving an empty final file and the
\* request was answered with the missing-or-empty error
C6_Witness ==
    \E r \in Requests :
        /\ exitCode[r].ff = 0
        /\ ExistsSync(fs, FinalOutputPath(timestamp[r]))
        /\ fs[FinalOutputPath(timestamp[r])].size = 0
        /\ HasResponse(r) /\ responses[r][1].status = 500
        /\ responses[r][1].body.details = FfmpegEmptyError

\* any of url, startTime, endTime is missing or empty
AnyFieldMissing(b) ==
    \E f \in {"url", "startTime", "endTime"} : b[f] \in {Undefined, ""}
Arrived(r) == pc[r] # "idle"
\* another request with r's timestamp has spawned ffmpeg
SharesFinalPath(r) ==
    \E q \in Requests \ {r} :
        timestamp[q] = timestamp[r] /\ spawned[q].ff > 0

\* C7 (as stated): a request with a missing or empty field is answered with an
\* error response, spawns no process and deletes no file.
C7_InvalidRequestTouchesNothing ==
    \A r \in Requests :
        (Arrived(r) /\ AnyFieldMissing(body[r])) =>
            /\ responses[r] = <<BadRequestResponse>>
            /\ spawned[r] = [yt |-> 0, ff |-> 0]
            /\ \A p \in DOMAIN CleanupPromises[r] :
                  CleanupPromises[r][p] # "deleted"

\* C7 (amended): such a request is answered with the error response and
\* spawns no process; the only file its handler unlinks is
\* clip-<timestamp>.mp4.part, which exists only if another request with the
\* same timestamp ran ffmpeg.
C7_InvalidRequestSpawnsNothing ==
    \A r \in Requests :
        (Arrived(r) /\ AnyFieldMissing(body[r])) =>
            /\ responses[r] = <<BadRequestResponse>>
            /\ spawned[r] = [yt |-> 0, ff |-> 0]
            /\ ytDlp[r] = "none" /\ ffmpeg[r] = "none"
            /\ DOMAIN CleanupPromises[r] \subseteq {PartFilePath(timestamp[r])}
            /\ DOMAIN CleanupPromises[r] # {} => SharesFinalPath(r)

\* C7 witness: a request without startTime has been answered and is over
C7_Witness ==
    \E r \in Requests :
        /\ body[r].url = "v" /\ body[r].startTime = Undefined
        /\ pc[r] = "done"
        /\ responses[r] = <<BadRequestResponse>>
        /\ spawned[r] = [yt |-> 0, ff |-> 0]

\* a second run of Cleanup for r in the current state, the OS answering the
\* unlinks as ok says
SecondRun(r, ok) ==
    CleanupRun(fs, tempMuxedPath[r], FinalOutputPath(timestamp[r]), ok)
UnlinkAnswers(r) ==
    [CleanupTargets(fs, tempMuxedPath[r], FinalOutputPath(timestamp[r]))
        -> BOOLEAN]

\* C8 (as stated, for a request served alone): once Cleanup has completed, a
\* second run raises no error and leaves the file system unchanged.
C8_SecondCleanupChangesNothing ==
    \A r \in Requests :
        (pc[r] = "done" /\ Alone(r)) =>
            \A ok \in UnlinkAnswers(r) :
                /\ ~SecondRun(r, ok).raised
                /\ SecondRun(r, ok).dir = fs

\* C8 (amended): no unlink of Cleanup ever rejects, in the first run or in a
\* second one; a second run leaves the file system unchanged when the
\* artifacts are absent, as they are for a request served alone after a first
\* run whose unlinks all removed their file.
C8_SecondCleanupRaisesNothing ==
    \A r \in Requests :
        /\ NoPromiseRejected(r)
        /\ pc[r] = "done" =>
              \A ok \in UnlinkAnswers(r) :
                  /\ ~SecondRun(r, ok).raised
                  /\ DOMAIN ok = {} => SecondRun(r, ok).dir = fs
                  /\ (Alone(r) /\ NoUnlinkFailed(r)) =>
                        (DOMAIN ok = {} /\ SecondRun(r, ok).dir = fs)

\* C8 witness: Cleanup has completed after removing both the intermediate
\* file and the .part file
C8_Witness ==
    \E r \in Requests :
        /\ pc[r] = "done" /\ Alone(r)
        /\ tempMuxedPath[r] # Null
        /\ DOMAIN CleanupPromises[r] =
              {tempMuxedPath[r], PartFilePath(timestamp[r])}
        /\ NoUnlinkFailed(r)

EntersCleanup(r) ==
    pc[r] \notin {"awaitCleanup", "done"} /\ pc'[r] \in {"awaitCleanup", "done"}

\* C9: Cleanup starts an unlink for each of the intermediate file and the
\* .part file that exists; an unlink that fails rejects nothing, changes
\* neither the response nor the other unlink, and the handler finishes once
\* every unlink has been attempted.
C9_UnlinkFailureIsContained ==
    [][\A r \in Requests :
          /\ EntersCleanup(r) =>
                \A p \in {tempMuxedPath'[r], PartFilePath(timestamp'[r])} :
                    (p # Null /\ ExistsSync(fs, p)) =>
                        p \in DOMAIN CleanupPromises'[r]
          /\ pc[r] = "awaitCleanup" =>
                /\ responses'[r] = responses[r]
                /\ DOMAIN CleanupPromises'[r] = DOMAIN CleanupPromises[r]
                /\ \A p \in DOMAIN CleanupPromises[r] :
                      (CleanupPromises[r][p] = "pending"
                          /\ CleanupPromises'[r][p] = "failed") =>
                          /\ \A q \in DOMAIN CleanupPromises[r] \ {p} :
                                CleanupPromises'[r][q] = CleanupPromises[r][q]
                          /\ pc'[r] = "done" <=>
                                \A q \in DOMAIN CleanupPromises[r] \ {p} :
                                    CleanupPromises[r][q] # "pending"
          /\ NoPromiseRejected(r)'
      ]_vars

\* C9 witness: after a success response the unlink of the intermediate file
\* failed, the .part file was removed all the same, and the handler finished
C9_Witness ==
    \E r \in Requests :
        /\ pc[r] = "done" /\ Succeeded(r)
        /\ tempMuxedPath[r] # Null
        /\ DOMAIN CleanupPromises[r] =
              {tempMuxedPath[r], PartFilePath(timestamp[r])}
        /\ CleanupPromises[r][tempMuxedPath[r]] = "failed"
        /\ CleanupPromises[r][PartFilePath(timestamp[r])] = "deleted"
        /\ ~ExistsSync(fs, PartFilePath(timestamp[r]))
        /\ ExistsSync(fs, tempMuxedPath[r])

\* C10 (as stated): when yt-dlp announced "[download] Destination: p" on its
\* standard output, p starts with the basename of the output base and exists,
\* and yt-dlp closes with code 0, the download resolves to p.
C10_AnnouncedPathIsResolved ==
    [][\A r \in Requests :
          \A i \in 1..Len(processStdout[r]) :
              LET p == processStdout[r][i][2]
              IN  (/\ YtDlpClosesWith(r, 0)
                   /\ processStdout[r][i][1] = DownloadTag
                   /\ StartsWith(p, TempMuxedBase(timestamp[r]))
                   /\ ExistsSync(fs, p))
                  => (download'[r].state = "resolved"
                         /\ download'[r].value = p)
      ]_vars

\* the names yt-dlp and ffmpeg of a request with timestamp ts write
WrittenFor(ts) ==
    {TempName(ts, e) : e \in Exts} \cup {FinalOutputPath(ts), PartFilePath(ts)}
\* the paths request r resolved, fed to ffmpeg or handed to an unlink
PathsUsed(r) ==
    (IF download[r].state = "resolved" THEN {download[r].value} ELSE {})
    \cup ({tempMuxedPath[r]} \ {Null})
    \cup DOMAIN CleanupPromises[r]

TokenIsPrefix(ts, tq) ==
    \E k \in 0..Len(ToDigits(tq)) : SubSeq(ToDigits(tq), 1, k) = ToDigits(ts)

YtDlpErrors(r) == ytDlp[r] = "failed" /\ ytDlp'[r] = "errored"
FfmpegErrors(r) == ffmpeg[r] = "failed" /\ ffmpeg'[r] = "errored"
\* the request's one response is the 500 and its details end with the
\* message of an OS error
AnsweredWithOsError(r) ==
    /\ Len(responses[r]) = 1
    /\ responses[r][1].status = 500
    /\ LET details == responses[r][1].body.details
       IN  Len(details) > 0 /\ details[Len(details)] \in OsErrors

\* C12: when yt-dlp or ffmpeg cannot be launched, the request is answered
\* with the error response carrying the OS error message, the process is not
\* spawned again, and Cleanup runs; when it is ffmpeg that failed, Cleanup
\* starts the unlink of the resolved intermediate file if it exists.
C12_SpawnFailureIsReported ==
    [][\A r \in Requests :
          /\ YtDlpErrors(r) =>
                /\ AnsweredWithOsError(r)'
                /\ InCleanup(r)'
                /\ spawned'[r] = [yt |-> 1, ff |-> 0]
          /\ FfmpegErrors(r) =>
                /\ AnsweredWithOsError(r)'
                /\ InCleanup(r)'
                /\ spawned'[r] = [yt |-> 1, ff |-> 1]
                /\ ExistsSync(fs, tempMuxedPath[r]) =>
                      tempMuxedPath[r] \in DOMAIN CleanupPromises'[r]
          /\ (ytDlp[r] = "errored" \/ ffmpeg[r] = "errored") =>
                (spawned'[r] = spawned[r] /\ responses'[r] = responses[r])
      ]_vars

\* C12 witness: ffmpeg could not be launched, the request was answered with
\* the OS error and Cleanup removed the resolved intermediate file
C12_Witness ==
    \E r \in Requests :
        /\ ffmpeg[r] = "errored" /\ pc[r] = "done"
        /\ AnsweredWithOsError(r)
        /\ tempMuxedPath[r] \in DOMAIN CleanupPromises[r]
        /\ CleanupPromises[r][tempMuxedPath[r]] = "deleted"

\* C13: within one request yt-dlp is spawned at most once and ffmpeg at most
\* once.
C13_NoRetry ==
    \A r \in Requests :
        /\ spawned[r].yt <= 1 /\ spawned[r].ff <= 1
        /\ ~Arrived(r) => spawned[r] = [yt |-> 0, ff |-> 0]

\* C13 witness: ffmpeg could not be launched and closed, the request is over,
\* and each binary was spawned once
C13_Witness ==
    \E r \in Requests :
        /\ pc[r] = "done"
        /\ ffmpeg[r] = "closed" /\ exitCode[r].ff = SpawnFailedCode
        /\ spawned[r] = [yt |-> 1, ff |-> 1]

\* the turn in which the response of r is sent
Responds(r) == responses[r] = <<>> /\ responses'[r] # <<>>

\* C14: a response with success: true and a filePath is sent only in the turn
\* in which ffmpeg closes with code 0 with the final file present and not
\* empty, after yt-dlp closed with code 0 and a path was resolved; every other
\* response is an error response without a filePath.
C14_SuccessOnlyWhenComplete ==
    [][\A r \in Requests :
          Responds(r) =>
              LET sent == responses'[r][1]
              IN  IF "success" \in DOMAIN sent.body
                  THEN /\ sent.body.success = TRUE
                       /\ sent.body.filePath = FinalOutputPath(timestamp[r])
                       /\ exitCode[r].yt = 0 /\ download[r].state = "resolved"
                       /\ tempMuxedPath[r] = download[r].value
                       /\ FfmpegClosesWith(r, 0)
                       /\ ExistsSync(fs, FinalOutputPath(timestamp[r]))
                       /\ fs[FinalOutputPath(timestamp[r])].size > 0
                  ELSE /\ sent.status \in {400, 500}
                       /\ "error" \in DOMAIN sent.body
                       /\ "filePath" \notin DOMAIN sent.body
      ]_vars

\* C14 witness: an error response was sent although a non-empty final file,
\* left by ffmpeg exiting with code 1, is in the directory
C14_Witness ==
    \E r \in Requests :
        /\ Alone(r) /\ exitCode[r].ff = 1
        /\ ExistsSync(fs, FinalOutputPath(timestamp[r]))
        /\ fs[FinalOutputPath(timestamp[r])].size > 0
        /\ HasResponse(r) /\ "filePath" \notin DOMAIN responses[r][1].body

\* the turn in which an unlink of r's Cleanup completes
UnlinkSettles(r) ==
    pc[r] = "awaitCleanup" /\ CleanupPromises'[r] # CleanupPromises[r]

\* C15: an unlink of Cleanup removes nothing but the resolved intermediate
\* file or finalOutputPath + ".part"; the final file and every other file stay
\* as they were, and Cleanup creates no file.
C15_CleanupFrame ==
    [][\A r \in Requests :
          /\ UnlinkSettles(r) =>
                /\ DOMAIN fs' \subseteq DOMAIN fs
                /\ \A n \in DOMAIN fs :
                      n \notin {tempMuxedPath[r], PartFilePath(timestamp[r])}
                          => (n \in DOMAIN fs' /\ fs'[n] = fs[n])
                /\ ExistsSync(fs, FinalOutputPath(timestamp[r])) =>
                      /\ ExistsSync(fs', FinalOutputPath(timestamp[r]))
                      /\ fs'[FinalOutputPath(timestamp[r])] =
                            fs[FinalOutputPath(timestamp[r])]
          /\ EntersCleanup(r) =>
                /\ fs' = fs
                /\ DOMAIN CleanupPromises'[r] \subseteq
                      {tempMuxedPath'[r], PartFilePath(timestamp'[r])}
      ]_vars

\* C15 witness: after a success Cleanup removed the intermediate file and the
\* .part file, and the final file and another download file are still there
C15_Witness ==
    \E r \in Requests :
        /\ pc[r] = "done" /\ Succeeded(r)
        /\ DOMAIN CleanupPromises[r] =
              {tempMuxedPath[r], PartFilePath(timestamp[r])}
        /\ NoUnlinkFailed(r)
        /\ ExistsSync(fs, FinalOutputPath(timestamp[r]))
        /\ fs[FinalOutputPath(timestamp[r])].size > 0
        /\ \E e \in Exts : ExistsSync(fs, TempName(timestamp[r], e))

\* the positions of the listing l whose entry starts with the basename of the
\* output base of a request with timestamp ts
Matches(l, ts) == {i \in 1..Len(l) : StartsWith(l[i], TempMuxedBase(ts))}
Least(S) == CHOOSE i \in S : \A j \in S : i <= j
\* the turn in which yt-dlp closes with code 0 with no destination detected
FallsBack(r) == YtDlpClosesWith(r, 0) /\ detectedPath[r] = Null

\* C16 (as stated): when yt-dlp closes with code 0 and no destination was
\* detected, the download fails only if no entry of the directory starts with
\* the basename.
C16_FallbackFailsOnlyWithoutMatch ==
    [][\A r \in Requests :
          (FallsBack(r) /\ ~NoMatch(r)) => download'[r].state = "resolved"
      ]_vars

\* C16 (amended): in that turn the download resolves to an entry of the
\* directory that is the first match of some listing, or it rejects with the
\* no-output-file error; for every listing readdirSync can return, the close
\* handler resolves to the first entry that starts with the basename and
\* rejects if there is none, and it rejects when readdirSync throws.
C16_FallbackResolvesFirstMatch ==
    [][\A r \in Requests :
          FallsBack(r) =>
              /\ \A l \in Listings(fs) :
                    LET out == ResolveDownload(fs, Null, timestamp[r], TRUE, l)
                    IN  IF Matches(l, timestamp[r]) = {}
                        THEN out.state = "rejected"
                             /\ out.reason = YtDlpNoFileError
                        ELSE out.state = "resolved"
                             /\ out.value = l[Least(Matches(l, timestamp[r]))]
              /\ ResolveDownload(fs, Null, timestamp[r], FALSE, <<>>).state
                    = "rejected"
              /\ \/ /\ download'[r].state = "resolved"
                    /\ \E l \in Listings(fs) :
                          /\ Matches(l, timestamp[r]) # {}
                          /\ download'[r].value =
                                l[Least(Matches(l, timestamp[r]))]
                 \/ /\ download'[r].state = "rejected"
                    /\ download'[r].reason = YtDlpNoFileError
              /\ NoMatch(r) => download'[r].state = "rejected"
      ]_vars

\* C16 witness: two files match and the download resolved to the fragment
\* file, which the listing had first
C16_Witness ==
    \E r \in Requests :
        /\ Alone(r) /\ exitCode[r].yt = 0 /\ pc[r] = "awaitFfmpeg"
        /\ download[r].state = "resolved"
        /\ download[r].value = TempName(timestamp[r], <<".f137", ".mp4">>)
        /\ ExistsSync(fs, TempName(timestamp[r], MergedExt))
        /\ ExistsSync(fs, download[r].value)

Settled(r, p) == CleanupPromises[r][p] \in {"deleted", "failed"}

\* C17: the handler finishes only after every unlink Cleanup started has
\* settled, by removing its file or by failing; while one is pending the
\* handler is awaiting.
C17_DoneAfterAllUnlinks ==
    \A r \in Requests :
        /\ pc[r] = "done" =>
              \A p \in DOMAIN CleanupPromises[r] : Settled(r, p)
        /\ \A p \in DOMAIN CleanupPromises[r] :
              ~Settled(r, p) =>
                  (pc[r] = "awaitCleanup" /\ CleanupPromises[r][p] = "pending")

\* C17 witness: both orders at once: one request's unlink of the intermediate
\* file has settled while that of its .part file is pending, and the other
\* request's unlink of the .part file has settled while that of its
\* intermediate file is pending
C17_Witness ==
    \E r \in Requests : \E q \in Requests \ {r} :
        /\ tempMuxedPath[r] # Null /\ tempMuxedPath[q] # Null
        /\ DOMAIN CleanupPromises[r] =
              {tempMuxedPath[r], PartFilePath(timestamp[r])}
        /\ DOMAIN CleanupPromises[q] =
              {tempMuxedPath[q], PartFilePath(timestamp[q])}
        /\ Settled(r, tempMuxedPath[r])
        /\ CleanupPromises[r][PartFilePath(timestamp[r])] = "pending"
        /\ Settled(q, PartFilePath(timestamp[q]))
        /\ CleanupPromises[q][tempMuxedPath[q]] = "pending"
        /\ pc[r] = "awaitCleanup" /\ pc[q] = "awaitCleanup"

\* the turn in which the promise of runYtDlpDownload is resolved
DownloadResolves(r) ==
    download[r].state = "pending" /\ download'[r].state = "resolved"

\* C18: when the download resolves, yt-dlp has closed with code 0 and the
\* resolved path is a file that exists at that moment and whose name starts
\* with the basename of the request's output base; tempMuxedPath, the input
\* of ffmpeg and the path Cleanup unlinks, is that path and no other.
C18_ResolvedPathExists ==
    [][\A r \in Requests :
          /\ DownloadResolves(r) =>
                /\ YtDlpClosesWith(r, 0)
                /\ ExistsSync(fs, download'[r].value)
                /\ StartsWith(download'[r].value, TempMuxedBase(timestamp[r]))
                /\ tempMuxedPath'[r] = download'[r].value
                /\ spawned'[r].ff = 1
          /\ tempMuxedPath'[r] # Null =>
                /\ download'[r].state = "resolved"
                /\ tempMuxedPath'[r] = download'[r].value
          /\ DOMAIN CleanupPromises'[r] \subseteq
                {tempMuxedPath'[r], PartFilePath(timestamp'[r])}
          /\ download[r].state = "resolved" => download'[r] = download[r]
      ]_vars

\* C18 witness: the download resolved to the merged file, ffmpeg was given
\* it, and Cleanup has removed that file and no other
C18_Witness ==
    \E r \in Requests :
        /\ download[r].state = "resolved"
        /\ download[r].value = TempName(timestamp[r], MergedExt)
        /\ ~ExistsSync(fs, TempName(timestamp[r], <<".f137", ".mp4">>))
        /\ tempMuxedPath[r] = download[r].value
        /\ pc[r] = "done" /\ Alone(r)
        /\ DOMAIN CleanupPromises[r] = {tempMuxedPath[r]}
        /\ CleanupPromises[r][tempMuxedPath[r]] = "deleted"
        /\ ~ExistsSync(fs, tempMuxedPath[r])

\* C19: a request is answered at most once.
C19_AtMostOneResponse ==
    \A r \in Requests :
        /\ Len(responses[r]) <= 1
        /\ ~Arrived(r) => responses[r] = <<>>

\* C19 witness: ffmpeg emitted 'error' and then 'close', the download before
\* it had closed, and the request has one response
C19_Witness ==
    \E r \in Requests :
        /\ ytDlp[r] = "closed" /\ ffmpeg[r] = "closed"
        /\ exitCode[r].ff = SpawnFailedCode
        /\ remux[r].state = "rejected"
        /\ Len(responses[r]) = 1

\* a process of r is alive and has emitted neither 'close' nor 'error'
AwaitsProcess(r) ==
    \/ ytDlp[r] \in {"running", "failed"}
    \/ ffmpeg[r] \in {"running", "failed"}
Finished(r) == HasResponse(r) /\ pc[r] = "done"

\* C20: as long as a process of a request has emitted neither 'close' nor
\* 'error', the request has no response and its Cleanup has not started; when
\* every process emits one of them in the end, every request that arrived is
\* answered and its Cleanup finishes (a request stays arrived and stays
\* finished, so "always eventually" is "leads to").
C20_AnsweredOnceProcessesEnd ==
    /\ [](\A r \in Requests :
            AwaitsProcess(r) => (~HasResponse(r) /\ ~InCleanup(r)
                                    /\ DOMAIN CleanupPromises[r] = {}))
    /\ []<>(\A r \in Requests : Arrived(r) => Finished(r))

\* C20 witness: both processes of a request ran and closed, and the request
\* was answered and its Cleanup has finished
C20_Witness ==
    \E r \in Requests :
        /\ Finished(r)
        /\ ytDlp[r] = "closed" /\ ffmpeg[r] = "closed"
        /\ exitCode[r].yt = 0 /\ exitCode[r].ff = 1
        /\ DOMAIN CleanupPromises[r] # {}

====
